---- MODULE Spec2Model ----
(***************************************************************************)
(* Model of gui/gradio_cli_wrapper.py: the command builder                 *)
(* (build_command, _split_device_ids), the process runner (run_inference)  *)
(* and the click wiring of create_demo.  Strings are TLA+ strings; one     *)
(* character of a string s is SubSeq(s, i, i).                             *)
(***************************************************************************)
EXTENDS Integers, Sequences, FiniteSets, TLC

VARIABLES
    env,          \* what the host offers: interpreter and script on disk
    DEFAULTS,     \* the module-level DEFAULTS mapping
    pc,           \* position of the click callback
    params,       \* the Parameter Set bound by run_inference
    cmd,          \* the local cmd of run_inference (token sequence)
    quoted_cmd,   \* the local quoted_cmd of run_inference
    childState,   \* "none", "running" or "exited"
    childArgv,    \* the argv the child was started with
    childOut,     \* the child's captured stdout
    childErr,     \* the child's captured stderr
    childCode,    \* the child's exit status
    launches,     \* subprocess.run calls made by the current submission
    outcome,      \* how run_inference ended: [kind, text]
    otherOutcome, \* how it would have ended had the child exited with another status
    calls,        \* build_command calls made so far
    memo          \* one earlier build_command call: its parameters and its result

vars == <<env, DEFAULTS, pc, params, cmd, quoted_cmd, childState, childArgv,
          childOut, childErr, childCode, launches, outcome, otherOutcome,
          calls, memo>>

-----------------------------------------------------------------------------
(* Bounds of the model *)

MaxDevLen == 3
MaxCalls == 2

-----------------------------------------------------------------------------
(* Python string primitives used by the source *)

Ch(s, i) == SubSeq(s, i, i)

\* the characters str.strip() and str.split() treat as whitespace
Whitespace == {" ", "\t", "\n", "\r", "\f"}

RECURSIVE LStrip(_)
LStrip(s) ==
    IF Len(s) > 0 /\ Ch(s, 1) \in Whitespace
    THEN LStrip(SubSeq(s, 2, Len(s)))
    ELSE s

RECURSIVE RStrip(_)
RStrip(s) ==
    IF Len(s) > 0 /\ Ch(s, Len(s)) \in Whitespace
    THEN RStrip(SubSeq(s, 1, Len(s) - 1))
    ELSE s

\* str.strip()
Strip(s) == RStrip(LStrip(s))

\* str.replace(old, new) for a one-character old
RECURSIVE Replace(_, _, _)
Replace(s, old, new) ==
    IF Len(s) = 0 THEN ""
    ELSE (IF Ch(s, 1) = old THEN new ELSE Ch(s, 1))
         \o Replace(SubSeq(s, 2, Len(s)), old, new)

\* str.split() without arguments, scanning from position i with the word cur open
RECURSIVE SplitFrom(_, _, _)
SplitFrom(s, i, cur) ==
    IF i > Len(s) THEN (IF cur = "" THEN <<>> ELSE <<cur>>)
    ELSE IF Ch(s, i) \in Whitespace
         THEN (IF cur = "" THEN <<>> ELSE <<cur>>) \o SplitFrom(s, i + 1, "")
         ELSE SplitFrom(s, i + 1, cur \o Ch(s, i))

Split(s) == SplitFrom(s, 1, "")

\* sep.join(parts)
RECURSIVE Join(_, _)
Join(parts, sep) ==
    IF Len(parts) = 0 THEN ""
    ELSE IF Len(parts) = 1 THEN parts[1]
    ELSE parts[1] \o sep \o Join(Tail(parts), sep)

\* the characters shlex.quote leaves alone: [\w@%+=:,./-] (ASCII)
SafeString ==
    "abcdefghijklmnopqrstuvwxyzABCDEFGHIJKLMNOPQRSTUVWXYZ0123456789_@%+=:,./-"

SafeChars == {Ch(SafeString, i) : i \in 1..Len(SafeString)}

\* shlex.quote
Quote(s) ==
    IF s = "" THEN "''"
    ELSE IF \A i \in 1..Len(s) : Ch(s, i) \in SafeChars THEN s
    ELSE "'" \o Replace(s, "'", "'\"'\"'") \o "'"

\* a generator expression: the elements of seq that are truthy (non-empty)
RECURSIVE NonEmpty(_)
NonEmpty(seq) ==
    IF Len(seq) = 0 THEN <<>>
    ELSE (IF Head(seq) = "" THEN <<>> ELSE <<Head(seq)>>) \o NonEmpty(Tail(seq))

-----------------------------------------------------------------------------
(* Module-level values *)

sys_executable == "/usr/bin/python3"

INFERENCE_SCRIPT == "/app/inference.py"

InitialDefaults ==
    [model_type |-> "bs_roformer",
     config_path |-> "ckpt/bs_rofomer/BS-Rofo-SW-Fixed.yaml",
     start_check_point |-> "ckpt/bs_rofomer/BS-Rofo-SW-Fixed.ckpt",
     input_file |-> "audio/sea.wav",
     store_dir |-> "separated/",
     device_ids |-> "0"]

-----------------------------------------------------------------------------
(* Command builder *)

\* cmd as first assigned: interpreter, script and the five flag/value pairs
RequiredTokens(p) ==
    <<sys_executable, INFERENCE_SCRIPT,
      "--model_type", p.model_type,
      "--config_path", p.config_path,
      "--start_check_point", p.start_check_point,
      "--input_file", p.input_file,
      "--store_dir", p.store_dir>>

\* the three conditional cmd.append calls
BoolTokens(p) ==
    (IF p.extract_instrumental THEN <<"--extract_instrumental">> ELSE <<>>)
    \o (IF p.use_tta THEN <<"--use_tta">> ELSE <<>>)
    \o (IF p.force_cpu THEN <<"--force_cpu">> ELSE <<>>)

\* _split_device_ids
SplitDeviceIdsOnCommaOnly(value) == Split(Replace(value, ",", ""))
_split_device_ids(value) == Split(Replace(value, ",", " "))

\* the device-id part of build_command
DeviceTokens(device_ids) ==
    LET stripped == Strip(device_ids)
    IN  IF stripped # ""
        THEN <<"--device_ids">> \o _split_device_ids(stripped)
        ELSE <<>>

BuildCommandFlagsFirst(p) ==
    SubSeq(RequiredTokens(p), 1, 2) \o BoolTokens(p)
    \o SubSeq(RequiredTokens(p), 3, 12) \o DeviceTokens(p.device_ids)
BuildCommandStale(p) ==
    RequiredTokens(p) \o BoolTokens(p)
    \o (IF calls = 0 THEN DeviceTokens(p.device_ids) ELSE <<>>)
build_command(p) ==
    RequiredTokens(p) \o BoolTokens(p) \o DeviceTokens(p.device_ids)

-----------------------------------------------------------------------------
(* Process runner *)

\* the guard at the top of run_inference
SamePathWrongPair(p) == p.input_file = p.config_path
SamePath(p) == p.input_file = p.store_dir

SamePathError ==
    "Error: input_file and store_dir must be different to avoid overwriting files."

\* " ".join(shlex.quote(part) for part in cmd)
RECURSIVE QuoteAll(_)
QuoteAll(tokens) ==
    IF Len(tokens) = 0 THEN <<>>
    ELSE <<Quote(Head(tokens))>> \o QuoteAll(Tail(tokens))

QuotedCmd(tokens) == Join(QuoteAll(tokens), " ")

\* what the host does with the argv handed to subprocess.run
Envs == {"ok", "script_missing", "interp_missing", "interp_noexec"}

\* the exception subprocess.run raises when the child cannot be started
LaunchError(e) ==
    IF e = "interp_missing" THEN "FileNotFoundError"
    ELSE IF e = "interp_noexec" THEN "PermissionError"
    ELSE ""

\* str(exc) of the OSError raised for argv[0]
ExcText(exc, argv) ==
    (IF exc = "FileNotFoundError"
     THEN "[Errno 2] No such file or directory: "
     ELSE "[Errno 13] Permission denied: ")
    \o "'" \o argv[1] \o "'"

\* the try/except around subprocess.run: only FileNotFoundError is caught
OnLaunchErrorNoCommand(exc, argv, quoted) ==
    IF exc = "FileNotFoundError"
    THEN [kind |-> "return",
          text |-> "Failed to run inference script: " \o ExcText(exc, argv)]
    ELSE [kind |-> "raise", text |-> exc]
OnLaunchError(exc, argv, quoted) ==
    IF exc = "FileNotFoundError"
    THEN [kind |-> "return",
          text |-> "Failed to run inference script: " \o ExcText(exc, argv)
                   \o "\nCommand: " \o quoted]
    ELSE [kind |-> "raise", text |-> exc]

\* the transcript built from the CompletedProcess; check=False, so returncode is unused
OnCompletedChecked(quoted, out, err, returncode) ==
    IF returncode # 0
    THEN [kind |-> "raise", text |-> "CalledProcessError"]
    ELSE [kind |-> "return",
          text |-> Join(NonEmpty(<<"$ " \o quoted, "", Strip(out), Strip(err)>>), "\n")]
OnCompleted(quoted, out, err, returncode) ==
    [kind |-> "return",
     text |-> Join(NonEmpty(<<"$ " \o quoted, "", Strip(out), Strip(err)>>), "\n")]

-----------------------------------------------------------------------------
(* Form shell: the click wiring of create_demo *)

\* inputs=[...] of run_button.click, in order
ClickInputs(w) ==
    <<w.input_file, w.store_dir, w.model_type, w.config_path, w.checkpoint_path,
      w.extract_instrumental, w.use_tta, w.force_cpu, w.device_ids>>

\* the positional parameters of run_inference, in order
BindArgs(a) ==
    [input_file |-> a[1], store_dir |-> a[2], model_type |-> a[3],
     config_path |-> a[4], start_check_point |-> a[5],
     extract_instrumental |-> a[6], use_tta |-> a[7], force_cpu |-> a[8],
     device_ids |-> a[9]]

-----------------------------------------------------------------------------
(* Inputs *)

\* widget values a user can submit
Widgets ==
    [model_type : {"bs_roformer"},
     config_path : {"c.yaml"},
     checkpoint_path : {"m.ckpt"},
     input_file : {"a.wav", "out/"},
     store_dir : {"out/", "it's out"},
     extract_instrumental : BOOLEAN,
     use_tta : {FALSE},
     force_cpu : BOOLEAN,
     device_ids : {"0", "0,1", ","}]

\* what a launched child can print, and how it can exit
ChildStdouts == {"", "done", " done\n"}
ChildStderrs == {"", "warn"}
ExitCodes == {0, 1, 2}

\* the interpreter's own report when the script file is missing
CantOpenScript ==
    sys_executable \o ": can't open file '" \o INFERENCE_SCRIPT
    \o "': [Errno 2] No such file or directory\n"

\* device-id specifiers for the builder: every string over DevAlphabet up to MaxDevLen
DevAlphabet == {"0", "1", ",", " "}

RECURSIVE StringsOfLen(_)
StringsOfLen(n) ==
    IF n = 0 THEN {""}
    ELSE {s \o c : s \in StringsOfLen(n - 1), c \in DevAlphabet}

DeviceSpecifiers ==
    UNION {StringsOfLen(n) : n \in 0..MaxDevLen} \cup {"\t0,\n1 ", "--force_cpu"}

BuildParamSets ==
    [model_type : {"bs_roformer", "--use_tta"},
     config_path : {"c.yaml"},
     start_check_point : {"m.ckpt"},
     input_file : {"a.wav"},
     store_dir : {"out/"},
     extract_instrumental : BOOLEAN,
     use_tta : BOOLEAN,
     force_cpu : BOOLEAN,
     device_ids : DeviceSpecifiers]

NoParams ==
    [model_type |-> "", config_path |-> "", start_check_point |-> "",
     input_file |-> "", store_dir |-> "", extract_instrumental |-> FALSE,
     use_tta |-> FALSE, force_cpu |-> FALSE, device_ids |-> ""]

NoOutcome == [kind |-> "none", text |-> ""]

NoMemo == [set |-> FALSE, params |-> NoParams, cmd |-> <<>>]

-----------------------------------------------------------------------------
(* The runner as a state machine *)

Init ==
    /\ env \in Envs
    /\ DEFAULTS = InitialDefaults
    /\ pc = "idle"
    /\ params = NoParams
    /\ cmd = <<>>
    /\ quoted_cmd = ""
    /\ childState = "none"
    /\ childArgv = <<>>
    /\ childOut = ""
    /\ childErr = ""
    /\ childCode = 0
    /\ launches = 0
    /\ outcome = NoOutcome
    /\ otherOutcome = NoOutcome
    /\ calls = 0
    /\ memo = NoMemo

\* run_button.click fires: run_inference is entered, checks the guard, builds
\* the command and its quoted form
Click(w) ==
    /\ pc = "idle"
    /\ calls < MaxCalls
    /\ LET p == BindArgs(ClickInputs(w))
       IN  /\ params' = p
           /\ IF SamePath(p)
              THEN /\ pc' = "returned"
                   /\ outcome' = [kind |-> "return", text |-> SamePathError]
                   /\ otherOutcome' = [kind |-> "return", text |-> SamePathError]
                   /\ UNCHANGED <<cmd, quoted_cmd, calls>>
              ELSE /\ pc' = "built"
                   /\ cmd' = build_command(p)
                   /\ quoted_cmd' = QuotedCmd(build_command(p))
                   /\ calls' = calls + 1
                   /\ UNCHANGED <<outcome, otherOutcome>>
    /\ UNCHANGED <<env, DEFAULTS, childState, childArgv, childOut, childErr,
                   childCode, launches, memo>>

\* subprocess.run(cmd, ...) is called: the child starts, or the launch fails
LaunchWithoutWaiting ==
    /\ pc = "built"
    /\ launches' = launches + 1
    /\ IF LaunchError(env) # ""
       THEN /\ outcome' = OnLaunchError(LaunchError(env), cmd, quoted_cmd)
            /\ otherOutcome' = OnLaunchError(LaunchError(env), cmd, quoted_cmd)
            /\ pc' = IF OnLaunchError(LaunchError(env), cmd, quoted_cmd).kind = "return"
                     THEN "returned" ELSE "raised"
            /\ UNCHANGED <<childState, childArgv>>
       ELSE /\ childState' = "running"
            /\ childArgv' = cmd
            /\ pc' = "returned"
            /\ outcome' = OnCompleted(quoted_cmd, "", "", 0)
            /\ otherOutcome' = OnCompleted(quoted_cmd, "", "", 0)
    /\ UNCHANGED <<env, DEFAULTS, params, cmd, quoted_cmd, childOut, childErr,
                   childCode, calls, memo>>
Launch ==
    /\ pc = "built"
    /\ launches' = launches + 1
    /\ IF LaunchError(env) # ""
       THEN /\ outcome' = OnLaunchError(LaunchError(env), cmd, quoted_cmd)
            /\ otherOutcome' = OnLaunchError(LaunchError(env), cmd, quoted_cmd)
            /\ pc' = IF OnLaunchError(LaunchError(env), cmd, quoted_cmd).kind = "return"
                     THEN "returned" ELSE "raised"
            /\ UNCHANGED <<childState, childArgv>>
       ELSE /\ childState' = "running"
            /\ childArgv' = cmd
            /\ pc' = "waiting"
            /\ UNCHANGED <<outcome, otherOutcome>>
    /\ UNCHANGED <<env, DEFAULTS, params, cmd, quoted_cmd, childOut, childErr,
                   childCode, calls, memo>>

\* the child exits; subprocess.run returns and run_inference formats and returns
ChildExit(out, err, code, code2) ==
    /\ pc = "waiting"
    /\ childState = "running"
    /\ env = "script_missing" => (out = "" /\ err = CantOpenScript /\ code = 2)
    /\ env # "script_missing" => (out \in ChildStdouts /\ err \in ChildStderrs)
    /\ code2 # code
    /\ childState' = "exited"
    /\ childOut' = out
    /\ childErr' = err
    /\ childCode' = code
    /\ outcome' = OnCompleted(quoted_cmd, out, err, code)
    /\ otherOutcome' = OnCompleted(quoted_cmd, out, err, code2)
    /\ pc' = IF OnCompleted(quoted_cmd, out, err, code).kind = "return"
             THEN "returned" ELSE "raised"
    /\ UNCHANGED <<env, DEFAULTS, params, cmd, quoted_cmd, childArgv, launches,
                   calls, memo>>

\* the callback is over: the value goes to the logs textbox and the locals of
\* run_inference are gone; memo keeps, or not, this call of build_command
Render(keep) ==
    /\ pc \in {"returned", "raised"}
    /\ pc' = "idle"
    /\ memo' = IF keep /\ cmd # <<>>
               THEN [set |-> TRUE, params |-> params, cmd |-> cmd]
               ELSE memo
    /\ params' = NoParams
    /\ cmd' = <<>>
    /\ quoted_cmd' = ""
    /\ childState' = "none"
    /\ childArgv' = <<>>
    /\ childOut' = ""
    /\ childErr' = ""
    /\ childCode' = 0
    /\ launches' = 0
    /\ outcome' = NoOutcome
    /\ otherOutcome' = NoOutcome
    /\ UNCHANGED <<env, DEFAULTS, calls>>

Next ==
    \/ \E w \in Widgets : Click(w)
    \/ Launch
    \/ \E out \in ChildStdouts \cup {""}, err \in ChildStderrs \cup {CantOpenScript},
          code \in ExitCodes, code2 \in ExitCodes : ChildExit(out, err, code, code2)
    \/ \E keep \in BOOLEAN : Render(keep)

Spec == Init /\ [][Next]_vars

-----------------------------------------------------------------------------
(* The builder alone, applied to every Parameter Set of BuildParamSets *)

InitBuild ==
    /\ env = "ok"
    /\ DEFAULTS = InitialDefaults
    /\ pc = "call"
    /\ params \in BuildParamSets
    /\ cmd = <<>>
    /\ quoted_cmd = ""
    /\ childState = "none"
    /\ childArgv = <<>>
    /\ childOut = ""
    /\ childErr = ""
    /\ childCode = 0
    /\ launches = 0
    /\ outcome = NoOutcome
    /\ otherOutcome = NoOutcome
    /\ calls = 0
    /\ memo = NoMemo

Build ==
    /\ pc = "call"
    /\ cmd' = build_command(params)
    /\ calls' = calls + 1
    /\ pc' = "done"
    /\ UNCHANGED <<env, DEFAULTS, params, quoted_cmd, childState, childArgv,
                   childOut, childErr, childCode, launches, outcome,
                   otherOutcome, memo>>

NextBuild == Build

SpecBuild == InitBuild /\ [][NextBuild]_vars

-----------------------------------------------------------------------------
(* Vocabulary of the properties *)

Range(seq) == {seq[i] : i \in 1..Len(seq)}

\* sub occurs in s
Contains(s, sub) ==
    \E i \in 1..(Len(s) - Len(sub) + 1) : SubSeq(s, i, i + Len(sub) - 1) = sub

Finished == pc \in {"returned", "raised"}

Submitted == pc \in {"built", "waiting", "returned", "raised"}

DistinctPaths == params.input_file # params.store_dir

\* the bare flags with their boolean parameters, in the documented order
BareFlags ==
    <<[flag |-> "--extract_instrumental", on |-> params.extract_instrumental],
      [flag |-> "--use_tta", on |-> params.use_tta],
      [flag |-> "--force_cpu", on |-> params.force_cpu]>>

NumOn == Cardinality({i \in 1..3 : BareFlags[i].on})

\* the tokens between the store_dir value and the device-id part
FlagSegment == SubSeq(cmd, 13, 12 + NumOn)

\* the tokens after the bare flags
DevicePart == SubSeq(cmd, 13 + NumOn, Len(cmd))

Scenario ==
    [model_type |-> "bs_roformer", config_path |-> "c.yaml",
     start_check_point |-> "m.ckpt", input_file |-> "a.wav", store_dir |-> "out/",
     extract_instrumental |-> FALSE, use_tta |-> FALSE, force_cpu |-> FALSE,
     device_ids |-> "0"]

ScenarioTail ==
    <<"--model_type", "bs_roformer", "--config_path", "c.yaml",
      "--start_check_point", "m.ckpt", "--input_file", "a.wav",
      "--store_dir", "out/", "--device_ids", "0">>

\* a separator of device ids: a comma or whitespace
IsSep(c) == c = "," \/ c \in Whitespace

\* where the maximal runs of non-separator characters of d start
RunStarts(d) ==
    {i \in 1..Len(d) : ~IsSep(Ch(d, i)) /\ (i = 1 \/ IsSep(Ch(d, i - 1)))}

\* the maximal run of d that starts at i
RunAt(d, i) ==
    LET j == CHOOSE e \in i..Len(d) :
                 /\ \A k \in i..e : ~IsSep(Ch(d, k))
                 /\ (e = Len(d) \/ IsSep(Ch(d, e + 1)))
    IN  SubSeq(d, i, j)

\* the n-th maximal run of d, in the original order
NthRun(d, n) ==
    RunAt(d, CHOOSE i \in RunStarts(d) :
                 Cardinality({j \in RunStarts(d) : j < i}) = n - 1)

OnlyWhitespace(d) == \A i \in 1..Len(d) : Ch(d, i) \in Whitespace

-----------------------------------------------------------------------------
(* Properties *)

\* C1: whenever input_file equals store_dir the call returns the same-path
\* error text, builds no command and launches no child; and no child ever runs
\* with an --input_file value equal to its --store_dir value.
C1_SamePathNeverLaunches ==
    /\ (Submitted /\ ~DistinctPaths) =>
           /\ pc = "returned"
           /\ outcome = [kind |-> "return", text |-> SamePathError]
           /\ cmd = <<>>
           /\ launches = 0
           /\ childState = "none"
    /\ childState # "none" => childArgv[10] # childArgv[12]

C1_Witness ==
    /\ pc = "returned"
    /\ params.input_file = "out/"
    /\ params.store_dir = "out/"
    /\ outcome.text = SamePathError

\* C2: with distinct paths, when the interpreter or the script does not exist
\* the call returns (does not raise) a transcript holding the attempted
\* command line and a failure description.
C2_MissingToolReturnsTranscript ==
    (Finished /\ DistinctPaths /\ env \in {"interp_missing", "script_missing"}) =>
        /\ outcome.kind = "return"
        /\ Contains(outcome.text, QuotedCmd(cmd))
        /\ Contains(outcome.text, "No such file or directory")

C2_Witness ==
    /\ pc = "returned"
    /\ env = "interp_missing"
    /\ launches = 1
    /\ DistinctPaths
    /\ Contains(outcome.text, "Failed to run inference script")

\* C3 as stated: each bare flag occurs somewhere in the returned sequence if
\* and only if its boolean parameter is true.
C3_FlagAnywhereIffTrue ==
    cmd # <<>> =>
        \A i \in 1..3 : (BareFlags[i].flag \in Range(cmd)) <=> BareFlags[i].on

\* C3 (amended): the sequence is interpreter, script, the five flag/value
\* pairs in the fixed order, then exactly the bare flags whose boolean is true,
\* in the order extract_instrumental, use_tta, force_cpu, then the device-id
\* part; a bare flag whose boolean is false is absent from that segment.  For
\* the end-to-end Parameter Set the sequence ends with the twelve listed tokens
\* and holds no bare flag.
C3_FixedOrder ==
    cmd # <<>> =>
        /\ SubSeq(cmd, 1, 12) =
               <<sys_executable, INFERENCE_SCRIPT,
                 "--model_type", params.model_type,
                 "--config_path", params.config_path,
                 "--start_check_point", params.start_check_point,
                 "--input_file", params.input_file,
                 "--store_dir", params.store_dir>>
        /\ Len(cmd) >= 12 + NumOn
        /\ \A i \in 1..3 :
               (BareFlags[i].flag \in Range(FlagSegment)) <=> BareFlags[i].on
        /\ \A a, b \in 1..3 : \A x, y \in 1..NumOn :
               (a < b /\ FlagSegment[x] = BareFlags[a].flag
                      /\ FlagSegment[y] = BareFlags[b].flag) => x < y
        /\ (DevicePart = <<>> \/ DevicePart[1] = "--device_ids")
        /\ params = Scenario =>
               /\ SubSeq(cmd, Len(cmd) - 11, Len(cmd)) = ScenarioTail
               /\ \A i \in 1..3 : BareFlags[i].flag \notin Range(cmd)

C3_Witness ==
    /\ pc = "done"
    /\ params.extract_instrumental /\ ~params.use_tta /\ params.force_cpu
    /\ params.model_type = "bs_roformer"
    /\ cmd[13] = "--extract_instrumental"
    /\ cmd[14] = "--force_cpu"

\* C4: an empty or whitespace-only specifier emits nothing; any other
\* specifier emits --device_ids after the bare flags, followed by the
\* specifier's maximal runs of characters that are neither commas nor
\* whitespace, in their original order; "0,1" and "0 1" both give "0", "1".
C4_DeviceIdNormalization ==
    cmd # <<>> =>
        LET d == params.device_ids
        IN  /\ OnlyWhitespace(d) => DevicePart = <<>>
            /\ ~OnlyWhitespace(d) =>
                   /\ DevicePart # <<>>
                   /\ DevicePart[1] = "--device_ids"
                   /\ Len(DevicePart) = 1 + Cardinality(RunStarts(d))
                   /\ \A n \in 1..Cardinality(RunStarts(d)) :
                          DevicePart[n + 1] = NthRun(d, n)
            /\ d \in {"0,1", "0 1"} => DevicePart = <<"--device_ids", "0", "1">>

C4_Witness ==
    /\ pc = "done"
    /\ params.device_ids = "0,1"
    /\ cmd[Len(cmd) - 2] = "--device_ids"
    /\ cmd[Len(cmd) - 1] = "0"
    /\ cmd[Len(cmd)] = "1"

\* C5: --device_ids, whenever present in the command, is followed by at
\* least one device token: it is never the last token.
C5_DeviceIdsNeverLast ==
    cmd # <<>> =>
        \A i \in 1..Len(cmd) : cmd[i] = "--device_ids" => i < Len(cmd)

\* C6: every launch failure is caught: run_inference returns text holding
\* the attempted command line and no exception leaves it.
C6_EveryLaunchFailureCaught ==
    (Finished /\ launches = 1 /\ childState = "none") =>
        /\ outcome.kind = "return"
        /\ Contains(outcome.text, QuotedCmd(cmd))

\* C7: after the child exited the transcript is the echoed command line, a
\* blank line, stdout, stderr, joined by newlines, an empty stdout or stderr
\* section being skipped.
C7_TranscriptHasBlankLine ==
    (Finished /\ childState = "exited") =>
        outcome.text =
            Join(<<"$ " \o QuotedCmd(cmd), "">>
                 \o NonEmpty(<<Strip(childOut), Strip(childErr)>>), "\n")

\* C8: the child's exit status never influences the result: with the same
\* parameters, stdout and stderr, another exit status gives the same
\* transcript, and a non-zero status gives neither an error nor an exception.
C8_ExitStatusIgnored ==
    (Finished /\ childState = "exited") =>
        /\ outcome.kind = "return"
        /\ otherOutcome = outcome

C8_Witness ==
    /\ pc = "returned"
    /\ childState = "exited"
    /\ env = "ok"
    /\ childCode = 1
    /\ childErr = ""
    /\ outcome.kind = "return"

\* C9: after any earlier invocations, build_command gives for an identical
\* Parameter Set the identical token sequence, and DEFAULTS is never changed.
C9_BuilderIdempotent ==
    /\ DEFAULTS = InitialDefaults
    /\ (memo.set /\ cmd # <<>> /\ memo.params = params) => memo.cmd = cmd

C9_Witness ==
    /\ memo.set
    /\ calls = 2
    /\ cmd # <<>>
    /\ memo.params = params
    /\ params.device_ids = "0,1"

C10_Inv ==
    /\ launches <= 1
    /\ (Finished /\ DistinctPaths) => (launches = 1 /\ childState # "running")
    /\ childState # "none" => (cmd # <<>> /\ childArgv = cmd)
    /\ childState = "running" => (pc = "waiting" /\ outcome = NoOutcome)
    /\ (pc = "returned" /\ childState = "exited") =>
           Contains(outcome.text, QuotedCmd(childArgv))

C10_Step ==
    /\ (pc = "idle" /\ pc' # "idle" /\ params'.input_file # params'.store_dir) =>
           (pc' = "built" /\ cmd' # <<>> /\ launches' = 0 /\ childState' = "none")
    /\ launches' > launches => (pc = "built" /\ launches = 0 /\ cmd' = cmd)
    /\ (childState # "running" /\ childState' = "running") =>
           (pc = "built" /\ launches' = 1)
    /\ (childState = "running" /\ childState' # "running") =>
           (childState' = "exited" /\ pc' \in {"returned", "raised"})
    /\ (~Finished /\ Finished' /\ params'.input_file # params'.store_dir) =>
           \/ pc = "waiting" /\ childState' = "exited"
           \/ pc = "built" /\ childState' = "none" /\ launches' = 1
    /\ (cmd # <<>> /\ pc' # "idle") => cmd' = cmd

\* C10: a submission with distinct paths builds the command, then launches
\* once, then the child exits, then the transcript is returned: one launch per
\* submission, of exactly the built and echoed token sequence, and nothing is
\* returned while the child runs.
C10_LinearOrder == [](C10_Inv) /\ [][C10_Step]_vars

C10_Witness ==
    /\ pc = "returned"
    /\ childState = "exited"
    /\ launches = 1
    /\ childArgv = cmd
    /\ childCode = 1

====
